---- MODULE Spec2Model ----
(***************************************************************************)
(* A model of src/src/main.rs: the SignalParams constructor, the signal    *)
(* synthesizer create_sine_wave, generate_title and the batch program      *)
(* main.                                                                   *)
(*                                                                         *)
(* Numbers.  The time grid of create_sine_wave is computed in f64.  It is  *)
(* modelled bit-exactly: an f64 is a sign, a 53-bit significand and a      *)
(* binary exponent, and every operation of the time grid (an f64 times or  *)
(* divided by an exactly representable small integer) rounds to nearest,   *)
(* ties to even.  The significand does not fit a 32-bit integer, so it is  *)
(* kept as a little-endian sequence of base-2^16 limbs.                    *)
(* Amplitudes are dyadic rationals k * 2^x with a small k: on them the     *)
(* quantizer's f64 arithmetic (scaling by a power of two, round, scaling   *)
(* back) is exact.  The library functions exp and sin are replaced by a    *)
(* deterministic fixed-point approximation with values in [-1, 1].         *)
(***************************************************************************)
EXTENDS Integers, Sequences, FiniteSets, TLC

\* ------------------------------------------------------------ let bindings

\* `let w = v; F(w)`: v is computed once and F receives its value.
Let(v, F(_)) == CHOOSE r \in {F(w) : w \in {v}} : TRUE

\* ------------------------------------------------------------ big naturals

Base == 2^16

Pow2(n) == 2^n

RECURSIVE BigNorm(_)
\* A limb sequence without high zero limbs; <<>> is zero.
BigNorm(a0) ==
    Let(a0, LAMBDA a :
        IF a = <<>> THEN <<>>
        ELSE IF a[Len(a)] = 0 THEN BigNorm(SubSeq(a, 1, Len(a) - 1))
        ELSE a)

RECURSIVE MulFrom(_, _, _, _)
MulFrom(a, k, idx, carry) ==
    IF idx > Len(a)
    THEN IF carry = 0 THEN <<>> ELSE <<carry>>
    ELSE Let(a[idx] * k + carry, LAMBDA p :
             <<p % Base>> \o MulFrom(a, k, idx + 1, p \div Base))

\* a * k for 0 <= k <= 2^15.
BigMulSmall(a0, k0) ==
    Let(a0, LAMBDA a : Let(k0, LAMBDA k :
        IF k = 0 THEN <<>> ELSE BigNorm(MulFrom(a, k, 1, 0))))

RECURSIVE DivFrom(_, _, _, _)
DivFrom(a, d, idx, rem) ==
    IF idx = 0 THEN [q |-> <<>>, r |-> rem]
    ELSE Let(rem * Base + a[idx], LAMBDA cur :
         Let(DivFrom(a, d, idx - 1, cur % d), LAMBDA lower :
             [q |-> Append(lower.q, cur \div d), r |-> lower.r]))

\* Quotient and remainder of a by d, 1 <= d <= 2^15.
BigDivSmall(a0, d0) ==
    Let(a0, LAMBDA a : Let(d0, LAMBDA d :
    Let(DivFrom(a, d, Len(a), 0), LAMBDA qr :
        [q |-> BigNorm(qr.q), r |-> qr.r])))

Zeros(n) == [j \in 1..n |-> 0]

\* a * 2^s.
BigShl(a0, s0) ==
    Let(a0, LAMBDA a : Let(s0, LAMBDA s :
        IF a = <<>> THEN <<>>
        ELSE BigMulSmall(Zeros(s \div 16) \o a, Pow2(s % 16))))

\* floor(a / 2^s), and whether a nonzero bit was shifted out.
BigShr(a0, s0) ==
    Let(a0, LAMBDA a : Let(s0 \div 16, LAMBDA w :
    Let(SubSeq(a, 1, IF w < Len(a) THEN w ELSE Len(a)), LAMBDA low :
    Let(BigDivSmall(IF w >= Len(a) THEN <<>> ELSE SubSeq(a, w + 1, Len(a)),
                    Pow2(s0 % 16)), LAMBDA qr :
        [q |-> qr.q,
         lost |-> (qr.r # 0) \/ (\E j \in 1..Len(low) : low[j] # 0)]))))

BitLenSmall(x) ==
    IF x = 0 THEN 0
    ELSE CHOOSE k \in 1..31 : Pow2(k - 1) <= x /\ (k = 31 \/ x < Pow2(k))

BitLen(a0) ==
    Let(a0, LAMBDA a :
        IF a = <<>> THEN 0 ELSE 16 * (Len(a) - 1) + BitLenSmall(a[Len(a)]))

RECURSIVE IncFrom(_, _)
IncFrom(a, idx) ==
    IF idx > Len(a) THEN <<1>>
    ELSE IF a[idx] + 1 < Base THEN <<a[idx] + 1>> \o SubSeq(a, idx + 1, Len(a))
    ELSE <<0>> \o IncFrom(a, idx + 1)

BigInc(a0) == Let(a0, LAMBDA a : IncFrom(a, 1))

BigOdd(a0) == Let(a0, LAMBDA a : a # <<>> /\ a[1] % 2 = 1)

RECURSIVE CmpFrom(_, _, _)
CmpFrom(a, b, idx) ==
    IF idx = 0 THEN 0
    ELSE IF a[idx] < b[idx] THEN -1
    ELSE IF a[idx] > b[idx] THEN 1
    ELSE CmpFrom(a, b, idx - 1)

\* -1, 0, 1 as a < b, a = b, a > b (both normalised).
BigCmp(a0, b0) ==
    Let(a0, LAMBDA a : Let(b0, LAMBDA b :
        IF Len(a) < Len(b) THEN -1
        ELSE IF Len(a) > Len(b) THEN 1
        ELSE CmpFrom(a, b, Len(a))))

RECURSIVE SubFrom(_, _, _, _)
SubFrom(a, b, idx, borrow) ==
    IF idx > Len(a) THEN <<>>
    ELSE Let(a[idx] - (IF idx <= Len(b) THEN b[idx] ELSE 0) - borrow, LAMBDA d :
             IF d < 0 THEN <<d + Base>> \o SubFrom(a, b, idx + 1, 1)
             ELSE <<d>> \o SubFrom(a, b, idx + 1, 0))

\* |a - b|.
BigAbsDiff(a0, b0) ==
    Let(a0, LAMBDA a : Let(b0, LAMBDA b :
        IF BigCmp(a, b) >= 0 THEN BigNorm(SubFrom(a, b, 1, 0))
        ELSE BigNorm(SubFrom(b, a, 1, 0))))

BigFromSmall(n0) ==
    Let(n0, LAMBDA n :
        IF n = 0 THEN <<>> ELSE BigNorm(<<n % Base, n \div Base>>))

\* The value of a big natural known to be below 2^31.
BigToSmall(a0) ==
    Let(a0, LAMBDA a :
        IF a = <<>> THEN 0
        ELSE IF Len(a) = 1 THEN a[1]
        ELSE a[1] + Base * a[2])

\* ------------------------------------------------------------------- f64

MantBits == 53

\* An f64: c is "num", "inf" or "nan"; a "num" is s * m * 2^e with m either
\* zero or a 53-bit significand (2^52 <= m < 2^53).
F64(s, m, e) == [c |-> "num", s |-> s, m |-> m, e |-> e]

FZero == F64(1, <<>>, 0)

FInf(s) == [c |-> "inf", s |-> s, m |-> <<>>, e |-> 0]

FNaN == [c |-> "nan", s |-> 1, m |-> <<>>, e |-> 0]

\* The f64 nearest to s * n * 2^e (ties to even); sticky says the exact
\* value lies strictly above n * 2^e and below (n + 1) * 2^e.
FRound(s, n0, e, sticky) ==
    Let(n0, LAMBDA n : Let(BitLen(n), LAMBDA len :
        IF n = <<>> THEN FZero
        ELSE IF len <= MantBits
        THEN F64(s, BigShl(n, MantBits - len), e - (MantBits - len))
        ELSE Let(len - MantBits, LAMBDA sh :
             Let(BigShr(n, sh - 1), LAMBDA h :
             Let(BigShr(h.q, 1).q, LAMBDA q :
             Let(BigOdd(h.q) /\ (h.lost \/ sticky \/ BigOdd(q)), LAMBDA up :
             Let(IF up THEN BigInc(q) ELSE q, LAMBDA m :
                 IF BitLen(m) > MantBits
                 THEN F64(s, BigShr(m, 1).q, e + sh + 1)
                 ELSE F64(s, m, e + sh))))))))

Sign(n) == IF n < 0 THEN -1 ELSE 1

Abs(n) == IF n < 0 THEN -n ELSE n

\* `n as f64` for an integer of small magnitude (exact).
FFromInt(n) == FRound(Sign(n), BigFromSmall(Abs(n)), 0, FALSE)

\* x * (n as f64) for an integer n, |n| <= 2^15.
FMulInt(x0, n0) ==
    Let(x0, LAMBDA x : Let(n0, LAMBDA n :
        IF x.c = "nan" THEN FNaN
        ELSE IF x.c = "inf" THEN (IF n = 0 THEN FNaN ELSE FInf(x.s * Sign(n)))
        ELSE FRound(x.s * Sign(n), BigMulSmall(x.m, Abs(n)), x.e, FALSE)))

\* x / (n as f64) for an integer n, |n| <= 2^15.
FDivInt(x0, n0) ==
    Let(x0, LAMBDA x : Let(n0, LAMBDA n :
        IF x.c = "nan" THEN FNaN
        ELSE IF x.c = "inf" THEN FInf(x.s * Sign(n))
        ELSE IF n = 0 THEN (IF x.m = <<>> THEN FNaN ELSE FInf(x.s))
        ELSE Let(BigDivSmall(BigShl(x.m, 16), Abs(n)), LAMBDA qr :
                 FRound(x.s * Sign(n), qr.q, x.e - 16, qr.r # 0))))

\* x <= y for numbers (false when either is NaN).
FLeq(x0, y0) ==
    Let(x0, LAMBDA x : Let(y0, LAMBDA y :
        IF x.c = "nan" \/ y.c = "nan" THEN FALSE
        ELSE IF x.c = "inf" THEN (x.s = -1 \/ (y.c = "inf" /\ y.s = 1))
        ELSE IF y.c = "inf" THEN y.s = 1
        ELSE IF x.m = <<>> THEN (y.m = <<>> \/ y.s = 1)
        ELSE IF y.m = <<>> THEN x.s = -1
        ELSE IF x.s # y.s THEN x.s = -1
        ELSE Let(IF x.e # y.e THEN (IF x.e < y.e THEN -1 ELSE 1)
                 ELSE BigCmp(x.m, y.m), LAMBDA c :
                 IF x.s = 1 THEN c <= 0 ELSE c >= 0)))

FLess(x0, y0) == Let(x0, LAMBDA x : Let(y0, LAMBDA y : FLeq(x, y) /\ x # y))

\* `x as i64` for a number of small magnitude: truncation toward zero.
FToInt(x0) ==
    Let(x0, LAMBDA x :
        IF x.c # "num" \/ x.m = <<>> THEN 0
        ELSE IF x.e >= 0 THEN x.s * BigToSmall(BigShl(x.m, x.e))
        ELSE x.s * BigToSmall(BigShr(x.m, -x.e).q))

\* x * y where y is zero or a power of two (exact: an exponent shift).
FMulPow2(x0, y0) ==
    Let(x0, LAMBDA x : Let(y0, LAMBDA y :
        IF x.c = "nan" \/ y.c = "nan" THEN FNaN
        ELSE IF x.c = "inf"
        THEN (IF y.c = "num" /\ y.m = <<>> THEN FNaN ELSE FInf(x.s * y.s))
        ELSE IF y.c = "inf" THEN (IF x.m = <<>> THEN FNaN ELSE FInf(x.s * y.s))
        ELSE IF x.m = <<>> \/ y.m = <<>> THEN FZero
        ELSE F64(x.s * y.s, x.m, x.e + y.e + (MantBits - 1))))

\* x / y where y is zero or a power of two (exact: an exponent shift).
FDivPow2(x0, y0) ==
    Let(x0, LAMBDA x : Let(y0, LAMBDA y :
        IF x.c = "nan" \/ y.c = "nan" THEN FNaN
        ELSE IF x.c = "inf" THEN (IF y.c = "inf" THEN FNaN ELSE FInf(x.s * y.s))
        ELSE IF y.c = "inf" THEN FZero
        ELSE IF y.m = <<>> THEN (IF x.m = <<>> THEN FNaN ELSE FInf(x.s))
        ELSE IF x.m = <<>> THEN FZero
        ELSE F64(x.s * y.s, x.m, x.e - y.e - (MantBits - 1))))

\* f64::round: to the nearest integer, halves away from zero.
FRoundHalfAway(x0) ==
    Let(x0, LAMBDA x :
        IF x.c # "num" \/ x.m = <<>> \/ x.e >= 0 THEN x
        ELSE IF -x.e > MantBits THEN FZero
        ELSE FRound(x.s, BigShr(BigInc(BigShr(x.m, (-x.e) - 1).q), 1).q, 0, FALSE))

\* ------------------------------------------------------------------- u32

\* 2u32.pow(exp): the power reduced modulo 2^32, and whether it overflowed
\* u32 (the exact power has more than 32 bits).
Pow2U32(exp) ==
    Let(BigShl(<<1>>, exp), LAMBDA exact :
        [val |-> BigNorm(SubSeq(exact, 1, IF Len(exact) < 2 THEN Len(exact) ELSE 2)),
         overflow |-> Len(exact) > 2])

\* `u as f64` for a u32 (exact).
FFromU32(u) == FRound(1, u, 0, FALSE)

\* ----------------------------------------------------- the damped sine

TimeFracBits == 10

AmpFracBits == 5

\* floor(t * 2^TimeFracBits) for a finite t >= 0 of small magnitude.
TimeTicks(t0) == Let(t0, LAMBDA t : FToInt(F64(t.s, t.m, t.e + TimeFracBits)))

\* exp(-decay_rate * t) * sin(2 pi signal_freq t) with decay_rate = 0.5, for
\* an integer-valued signal_freq and a finite t >= 0, in units of
\* 2^-AmpFracBits.  sin is Bhaskara's rational approximation on each half
\* period, exp(-x) the (2,2) Pade approximant (12 - 6x + x^2) / (12 + 6x + x^2)
\* at x = t / 2; both stay within [-1, 1].
DampedSineUnits(signal_freq, t) ==
    LET period == Pow2(TimeFracBits)
        half   == period \div 2
        d      == 2 * period
    IN  Let(TimeTicks(t), LAMBDA k :
        Let((FToInt(signal_freq) * k) % period, LAMBDA p :
        Let(p % half, LAMBDA q :
            LET sNum == 16 * q * (half - q)
                sDen == 5 * half * half - 4 * q * (half - q)
                sinU == (Pow2(AmpFracBits) * sNum) \div sDen
                eNum == 12 * d - 6 * k + (k * k) \div d
                eDen == 12 * d + 6 * k + (k * k) \div d
                mag  == (sinU * eNum) \div eDen
            IN  IF p < half THEN mag ELSE -mag)))

DampedSine(signal_freq, t) ==
    Let(DampedSineUnits(signal_freq, t), LAMBDA u :
        FRound(Sign(u), BigFromSmall(Abs(u)), -AmpFracBits, FALSE))

\* ------------------------------------------------------- SignalParams

\* SignalParams::new with the ratio computed without its factor 2.
SignalParams_new_unscaled(name, signal_freq, sampling_rate, bit_depth) ==
    [name          |-> name,
     signal_freq   |-> signal_freq,
     sampling_rate |-> sampling_rate,
     bit_depth     |-> bit_depth,
     nyquist_ratio |-> FDivInt(signal_freq, sampling_rate)]

SignalParams_new(name, signal_freq, sampling_rate, bit_depth) ==
    [name          |-> name,
     signal_freq   |-> signal_freq,
     sampling_rate |-> sampling_rate,
     bit_depth     |-> bit_depth,
     nyquist_ratio |-> FDivInt(FMulInt(signal_freq, 2), sampling_rate)]

\* --------------------------------------------------- create_sine_wave

TIME_RANGE == 2

INTERPOLATION_FACTOR == 20

time_range == FFromInt(TIME_RANGE)

dt(params) == FDivInt(FFromInt(1), params.sampling_rate)

num_samples(params) == FToInt(FMulInt(time_range, params.sampling_rate))

continuous_points(params) == num_samples(params) * INTERPOLATION_FACTOR

\* continuous_x over the inclusive range 0..=continuous_points.
continuous_x_inclusive(params) ==
    Let(continuous_points(params) + 1, LAMBDA n :
    Let(dt(params), LAMBDA step :
    Let([k \in 1..n |-> FDivInt(FMulInt(step, k - 1), INTERPOLATION_FACTOR)],
        LAMBDA gen :
    Let({k \in 1..n : ~FLeq(gen[k], time_range)}, LAMBDA cut :
    Let(IF cut = {} THEN (IF n < 0 THEN 0 ELSE n)
        ELSE (CHOOSE k \in cut : \A j \in cut : k <= j) - 1, LAMBDA len :
        [k \in 1..len |-> gen[k]])))))

\* continuous_x over the range 1..=continuous_points (the grid starts one
\* step late).
continuous_x_from_one(params) ==
    Let(continuous_points(params), LAMBDA n :
    Let(dt(params), LAMBDA step :
    Let([k \in 1..n |-> FDivInt(FMulInt(step, k), INTERPOLATION_FACTOR)],
        LAMBDA gen :
    Let({k \in 1..n : ~FLeq(gen[k], time_range)}, LAMBDA cut :
    Let(IF cut = {} THEN (IF n < 0 THEN 0 ELSE n)
        ELSE (CHOOSE k \in cut : \A j \in cut : k <= j) - 1, LAMBDA len :
        [k \in 1..len |-> gen[k]])))))

\* (0..continuous_points).map(i * dt / 20).take_while(t <= time_range)
continuous_x(params) ==
    Let(continuous_points(params), LAMBDA n :
    Let(dt(params), LAMBDA step :
    Let([k \in 1..n |-> FDivInt(FMulInt(step, k - 1), INTERPOLATION_FACTOR)],
        LAMBDA gen :
    Let({k \in 1..n : ~FLeq(gen[k], time_range)}, LAMBDA cut :
    Let(IF cut = {} THEN (IF n < 0 THEN 0 ELSE n)
        ELSE (CHOOSE k \in cut : \A j \in cut : k <= j) - 1, LAMBDA len :
        [k \in 1..len |-> gen[k]])))))

continuous_y(params, cx) ==
    [k \in 1..Len(cx) |-> DampedSine(params.signal_freq, cx[k])]

\* 2u32.pow(bit_depth) as f64.  With overflow checks (a debug build) an
\* overflowing power panics; without them it wraps.
Overflowed == [c |-> "panic", s |-> 1, m |-> <<>>, e |-> 0]

amplitude_levels(params, checks) ==
    Let(Pow2U32(params.bit_depth), LAMBDA p :
        IF p.overflow /\ checks THEN Overflowed ELSE FFromU32(p.val))

\* sample_x over the range 1..=num_samples.
sample_x_from_one(params) ==
    Let(dt(params), LAMBDA step :
        [k \in 1..num_samples(params) |-> FMulInt(step, k)])

sample_x(params) ==
    Let(dt(params), LAMBDA step :
        [k \in 1..num_samples(params) |-> FMulInt(step, k - 1)])

\* The quantizer scaling back by amplitude_levels instead of its half.
Quantize_full_scale(raw_sin, levels0) ==
    Let(levels0, LAMBDA levels :
        FDivPow2(FRoundHalfAway(FDivInt(FMulPow2(raw_sin, levels), 2)), levels))

\* (raw_sin * amplitude_levels / 2.0).round() / (amplitude_levels / 2.0)
Quantize(raw_sin, levels0) ==
    Let(levels0, LAMBDA levels :
        FDivPow2(FRoundHalfAway(FDivInt(FMulPow2(raw_sin, levels), 2)),
                 FDivInt(levels, 2)))

sample_y(params, sx, levels) ==
    [k \in 1..Len(sx) |-> Quantize(DampedSine(params.signal_freq, sx[k]), levels)]

\* The outcome of a call: the four vectors returned, or a panic.
Returned(cx, cy, sx, sy) ==
    [outcome |-> "returned", continuous_x |-> cx, continuous_y |-> cy,
     sample_x |-> sx, sample_y |-> sy]

Panicked ==
    [outcome |-> "panicked", continuous_x |-> <<>>, continuous_y |-> <<>>,
     sample_x |-> <<>>, sample_y |-> <<>>]

VARIABLE plot   \* `plot`: the traces added, the layout set, the images written

\* create_sine_wave filling buffers that outlive the call: the continuous
\* vectors of the previous call are still in them.
create_sine_wave_reusing(params0, checks) ==
    Let(params0, LAMBDA params :
    Let(continuous_x(params), LAMBDA cx :
    Let(continuous_y(params, cx), LAMBDA cy :
    Let(amplitude_levels(params, checks), LAMBDA levels :
    Let(sample_x(params), LAMBDA sx :
    Let(IF Len(plot.traces) >= 2 THEN plot.traces[Len(plot.traces) - 1]
        ELSE [x |-> <<>>, y |-> <<>>], LAMBDA kept :
        IF levels = Overflowed THEN Panicked
        ELSE Returned(kept.x \o cx, kept.y \o cy, sx,
                      sample_y(params, sx, levels))))))))

create_sine_wave(params0, checks) ==
    Let(params0, LAMBDA params :
    Let(continuous_x(params), LAMBDA cx :
    Let(continuous_y(params, cx), LAMBDA cy :
    Let(amplitude_levels(params, checks), LAMBDA levels :
    Let(sample_x(params), LAMBDA sx :
        IF levels = Overflowed THEN Panicked
        ELSE Returned(cx, cy, sx, sample_y(params, sx, levels)))))))

\* format!("{:.d}", x) for d decimal places: the sign and the integer nearest
\* to |x| * 10^d (ties to even) whose digits are printed, or inf or NaN.
FormatFixed(x0, d) ==
    Let(x0, LAMBDA x :
        IF x.c # "num" \/ x.m = <<>> THEN [c |-> x.c, s |-> x.s, digits |-> <<>>]
        ELSE Let(BigMulSmall(x.m, 10^d), LAMBDA n :
             IF x.e >= 0 THEN [c |-> "num", s |-> x.s, digits |-> BigShl(n, x.e)]
             ELSE Let(BigShr(n, (-x.e) - 1), LAMBDA h :
                  Let(BigShr(h.q, 1).q, LAMBDA q :
                      [c |-> "num", s |-> x.s,
                       digits |-> IF BigOdd(h.q) /\ (h.lost \/ BigOdd(q))
                                  THEN BigInc(q) ELSE q]))))

\* The pieces of the formatted title, in the order of the format string.
generate_title(params) ==
    <<params.name, " (Nyquist Ratio: ", FormatFixed(params.nyquist_ratio, 2),
      ")<br>Signal: ", FormatFixed(params.signal_freq, 1),
      "Hz<br>Sampling: ", params.sampling_rate,
      "Hz<br>Bit Depth: ", params.bit_depth, "-bit">>


\* ------------------------------------------------------------ the plot

\* Scatter::new(cont_x, cont_y)...: the continuous trace of parameter set i
\* (0-based, as enumerate() counts).
continuous_scatter(wave, i) ==
    [name   |-> "Original Signal",
     mode   |-> "Lines",
     x      |-> wave.continuous_x,
     y      |-> wave.continuous_y,
     x_axis |-> "x" \o ToString(i + 1),
     y_axis |-> "y" \o ToString(i + 1)]

\* The sampled trace bound to the axes of the 0-based index itself.
samples_scatter_unshifted(wave, i) ==
    [name   |-> "Sampled & Reconstructed",
     mode   |-> "LinesMarkers",
     x      |-> wave.sample_x,
     y      |-> wave.sample_y,
     x_axis |-> "x" \o ToString(i),
     y_axis |-> "y" \o ToString(i)]

\* Scatter::new(sample_x, sample_y)...: the sampled trace of parameter set i.
samples_scatter(wave, i) ==
    [name   |-> "Sampled & Reconstructed",
     mode   |-> "LinesMarkers",
     x      |-> wave.sample_x,
     y      |-> wave.sample_y,
     x_axis |-> "x" \o ToString(i + 1),
     y_axis |-> "y" \o ToString(i + 1)]

NoLayout == [set |-> FALSE, annotations |-> <<>>]

Plot_new == [traces |-> <<>>, layout |-> NoLayout, images |-> <<>>]

add_trace(p, trace) == [p EXCEPT !.traces = Append(@, trace)]

set_layout(p, l) == [p EXCEPT !.layout = l]

write_image(p, path) == [p EXCEPT !.images = Append(@, path)]

Layout_new == [set |-> TRUE, annotations |-> <<>>]

add_annotation(l, a) == [l EXCEPT !.annotations = Append(@, a)]

\* The title annotation of parameter set k (1-based); the axis references are
\* "x", "x2", "x3", "x4".
title_annotation(ps, k) ==
    [text  |-> generate_title(ps[k]),
     x_ref |-> IF k = 1 THEN "x" ELSE "x" \o ToString(k),
     y_ref |-> IF k = 1 THEN "y" ELSE "y" \o ToString(k)]

GUIDE_STEPS == 10

\* i as f64 * 0.1
guide_pos(i) == FMulInt(FDivInt(FFromInt(1), 10), i)

\* A guide annotation.
guide(label, x, y) ==
    [text |-> label, x_ref |-> "paper", y_ref |-> "paper", x |-> x, y |-> y]

FHalf == FDivInt(FFromInt(1), 2)

\* ------------------------------------------------------------- the state

VARIABLES
    input,            \* the arguments SignalParams::new is exercised with
    overflow_checks,  \* whether the build checks integer overflow (debug)
    params,           \* `params`: the SignalParams constructed so far
    pc,               \* the statement to execute next
    i,                \* the index of the running loop
    scatter,          \* the loop body's `continuous` and `samples`
    layout,           \* `layout`
    annotations,      \* `annotations`
    guides,           \* create_layout_guides: `guides`
    quant             \* the quantizer exercised alone: inputs, stage, results

vars == <<input, overflow_checks, params, plot, pc, i, scatter, layout,
          annotations, guides, quant>>

\* ------------------------------------------------------------ the inputs

MaxRate == 5

MaxParams == 2

MaxBitDepth == 33

Names == {"Severe Aliasing", "Aliasing"}

Freqs == {0, 3, 10}

Rates == -1..MaxRate

BitDepths == {0, 16, 32}

NoInput == [signal_freq |-> 0, sampling_rate |-> 0, bit_depth |-> 0]

NoScatter == <<>>

NoQuant ==
    [bit_depth |-> 0, raw |-> FZero, stage |-> "idle", levels |-> FZero,
     out |-> FZero, again |-> FZero]

\* ------------------------------------------------- main's statements

\* Lines 148-156: the plot and the four parameter sets.
MainStart ==
    /\ pc = "start"
    /\ plot' = Plot_new
    /\ params' = <<SignalParams_new("Severe Aliasing", FFromInt(10), 8, 16),
                   SignalParams_new("Aliasing", FFromInt(10), 12, 16),
                   SignalParams_new("Near Nyquist", FFromInt(10), 24, 16),
                   SignalParams_new("Hi Resolution", FFromInt(10), 240, 16)>>
    /\ pc' = "loop"
    /\ i' = 0
    /\ UNCHANGED <<input, overflow_checks, scatter, layout, annotations, guides, quant>>

\* Lines 160-177: create_sine_wave(param) and the two Scatter values built
\* from the vectors it returns.  A panic ends the process.
LoopSynth ==
    /\ pc = "loop"
    /\ i < Len(params)
    /\ \E wave \in {create_sine_wave(params[i + 1], overflow_checks)} :
           IF wave.outcome = "panicked"
           THEN /\ pc' = "panicked"
                /\ scatter' = scatter
           ELSE /\ pc' = "add_continuous"
                /\ scatter' = [continuous |-> continuous_scatter(wave, i),
                               samples    |-> samples_scatter(wave, i)]
    /\ UNCHANGED <<input, overflow_checks, params, plot, i, layout, annotations,
                   guides, quant>>

\* Line 179.
LoopAddContinuous ==
    /\ pc = "add_continuous"
    /\ plot' = add_trace(plot, scatter.continuous)
    /\ pc' = "add_samples"
    /\ UNCHANGED <<input, overflow_checks, params, i, scatter, layout,
                   annotations, guides, quant>>

\* Line 180, and the end of the loop body.
LoopAddSamples ==
    /\ pc = "add_samples"
    /\ plot' = add_trace(plot, scatter.samples)
    /\ scatter' = NoScatter
    /\ i' = i + 1
    /\ pc' = "loop"
    /\ UNCHANGED <<input, overflow_checks, params, layout, annotations, guides, quant>>

\* Lines 185-261, once the loop has run out.
BuildLayout ==
    /\ pc = "loop"
    /\ i = Len(params)
    /\ layout' = Layout_new
    /\ pc' = "annotations"
    /\ UNCHANGED <<input, overflow_checks, params, plot, i, scatter, annotations,
                   guides, quant>>

\* Lines 264-325: one title annotation per parameter set, in list order
\* (main names params[0] .. params[3], all it has).
BuildAnnotations ==
    /\ pc = "annotations"
    /\ annotations' = [k \in 1..Len(params) |-> title_annotation(params, k)]
    /\ pc' = "add_titles"
    /\ i' = 0
    /\ UNCHANGED <<input, overflow_checks, params, plot, scatter, layout, guides, quant>>

\* Lines 327-329.
AddTitleAnnotation ==
    /\ pc = "add_titles"
    /\ i < Len(annotations)
    /\ layout' = add_annotation(layout, annotations[i + 1])
    /\ i' = i + 1
    /\ UNCHANGED <<input, overflow_checks, params, plot, pc, scatter, annotations,
                   guides, quant>>

\* Line 332 calls create_layout_guides; lines 31-34.
GuidesStart ==
    /\ pc = "add_titles"
    /\ i = Len(annotations)
    /\ guides' = <<>>
    /\ i' = 0
    /\ pc' = "guide_x_label"
    /\ UNCHANGED <<input, overflow_checks, params, plot, scatter, layout,
                   annotations, quant>>

\* Lines 38-48.
GuideXLabel ==
    /\ pc = "guide_x_label"
    /\ guides' = Append(guides, guide(<<"x: ", FormatFixed(guide_pos(i), 1)>>, guide_pos(i), FZero))
    /\ pc' = "guide_x_bar"
    /\ UNCHANGED <<input, overflow_checks, params, plot, i, scatter, layout,
                   annotations, quant>>

\* Lines 51-60, and the step of the loop of line 37.
GuideXBar ==
    /\ pc = "guide_x_bar"
    /\ guides' = Append(guides, guide(<<"|">>, guide_pos(i), FHalf))
    /\ i' = IF i = GUIDE_STEPS THEN 0 ELSE i + 1
    /\ pc' = IF i = GUIDE_STEPS THEN "guide_y_label" ELSE "guide_x_label"
    /\ UNCHANGED <<input, overflow_checks, params, plot, scatter, layout,
                   annotations, quant>>

\* Lines 65-75.
GuideYLabel ==
    /\ pc = "guide_y_label"
    /\ guides' = Append(guides, guide(<<"y: ", FormatFixed(guide_pos(i), 1)>>, FZero, guide_pos(i)))
    /\ pc' = "guide_y_bar"
    /\ UNCHANGED <<input, overflow_checks, params, plot, i, scatter, layout,
                   annotations, quant>>

\* Lines 78-87, the step of the loop of line 64, and the return of line 90.
GuideYBar ==
    /\ pc = "guide_y_bar"
    /\ guides' = Append(guides, guide(<<"-">>, FHalf, guide_pos(i)))
    /\ i' = IF i = GUIDE_STEPS THEN 0 ELSE i + 1
    /\ pc' = IF i = GUIDE_STEPS THEN "add_guides" ELSE "guide_y_label"
    /\ UNCHANGED <<input, overflow_checks, params, plot, scatter, layout,
                   annotations, quant>>

\* Lines 332-334.
AddGuideAnnotation ==
    /\ pc = "add_guides"
    /\ i < Len(guides)
    /\ layout' = add_annotation(layout, guides[i + 1])
    /\ i' = i + 1
    /\ UNCHANGED <<input, overflow_checks, params, plot, pc, scatter, annotations,
                   guides, quant>>

\* Line 336.
SetLayout ==
    /\ pc = "add_guides"
    /\ i = Len(guides)
    /\ plot' = set_layout(plot, layout)
    /\ pc' = "write_image"
    /\ UNCHANGED <<input, overflow_checks, params, i, scatter, layout, annotations,
                   guides, quant>>

\* Lines 337-343.
WriteImage ==
    /\ pc = "write_image"
    /\ plot' = write_image(plot, "export/digital_audio_comparison.png")
    /\ pc' = "done"
    /\ UNCHANGED <<input, overflow_checks, params, i, scatter, layout, annotations,
                   guides, quant>>

MainInit ==
    /\ input = NoInput
    /\ overflow_checks \in BOOLEAN
    /\ params = <<>>
    /\ plot = Plot_new
    /\ pc = "start"
    /\ i = 0
    /\ scatter = NoScatter
    /\ layout = NoLayout
    /\ annotations = <<>>
    /\ guides = <<>>
    /\ quant = NoQuant

MainNext ==
    \/ MainStart
    \/ LoopSynth
    \/ LoopAddContinuous
    \/ LoopAddSamples
    \/ BuildLayout
    \/ BuildAnnotations
    \/ AddTitleAnnotation
    \/ GuidesStart
    \/ GuideXLabel
    \/ GuideXBar
    \/ GuideYLabel
    \/ GuideYBar
    \/ AddGuideAnnotation
    \/ SetLayout
    \/ WriteImage

\* The program main.
MainSpec == MainInit /\ [][MainNext]_vars

\* ----------------------------- the library, driven as main drives it

\* SignalParams::new with the arguments under test and any name.
CallNew(name) ==
    /\ pc = "build"
    /\ Len(params) < MaxParams
    /\ params' = Append(params,
                        SignalParams_new(name, FFromInt(input.signal_freq),
                                         input.sampling_rate, input.bit_depth))
    /\ UNCHANGED <<input, overflow_checks, plot, pc, i, scatter, layout,
                   annotations, guides, quant>>

\* Line 159: the loop over the parameter sets starts.
StartLoop ==
    /\ pc = "build"
    /\ Len(params) >= 1
    /\ pc' = "loop"
    /\ i' = 0
    /\ UNCHANGED <<input, overflow_checks, params, plot, scatter, layout,
                   annotations, guides, quant>>

Init ==
    /\ input \in [signal_freq : Freqs, sampling_rate : Rates, bit_depth : BitDepths]
    /\ overflow_checks \in BOOLEAN
    /\ params = <<>>
    /\ plot = Plot_new
    /\ pc = "build"
    /\ i = 0
    /\ scatter = NoScatter
    /\ layout = NoLayout
    /\ annotations = <<>>
    /\ guides = <<>>
    /\ quant = NoQuant

Next ==
    \/ \E name \in Names : CallNew(name)
    \/ StartLoop
    \/ LoopSynth
    \/ LoopAddContinuous
    \/ LoopAddSamples
    \/ BuildLayout
    \/ BuildAnnotations
    \/ AddTitleAnnotation

\* SignalParams::new, create_sine_wave and generate_title for any arguments,
\* called in the order main calls them.
Spec == Init /\ [][Next]_vars

\* ------------------------------------------------ the quantizer alone

RawUnits == (-Pow2(AmpFracBits))..Pow2(AmpFracBits)

\* A raw amplitude in [-1, 1]: u * 2^-AmpFracBits.
RawOf(u) == FRound(Sign(u), BigFromSmall(Abs(u)), -AmpFracBits, FALSE)

QuantInit ==
    /\ input = NoInput
    /\ overflow_checks \in BOOLEAN
    /\ params = <<>>
    /\ plot = Plot_new
    /\ pc = "quantizer"
    /\ i = 0
    /\ scatter = NoScatter
    /\ layout = NoLayout
    /\ annotations = <<>>
    /\ guides = <<>>
    /\ \E b \in 0..MaxBitDepth, u \in RawUnits :
          quant = [NoQuant EXCEPT !.bit_depth = b, !.raw = RawOf(u), !.stage = "start"]

\* Line 120.
QuantLevels ==
    /\ quant.stage = "start"
    /\ \E levels \in {amplitude_levels(quant, overflow_checks)} :
           quant' = IF levels = Overflowed
                    THEN [quant EXCEPT !.stage = "panicked"]
                    ELSE [quant EXCEPT !.stage = "levels", !.levels = levels]
    /\ UNCHANGED <<input, overflow_checks, params, plot, pc, i, scatter, layout,
                   annotations, guides>>

\* Line 129 on the raw amplitude.
QuantApply ==
    /\ quant.stage = "levels"
    /\ quant' = [quant EXCEPT !.stage = "quantized",
                              !.out = Quantize(quant.raw, quant.levels)]
    /\ UNCHANGED <<input, overflow_checks, params, plot, pc, i, scatter, layout,
                   annotations, guides>>

\* Line 129 again, on its own result.
QuantAgain ==
    /\ quant.stage = "quantized"
    /\ quant' = [quant EXCEPT !.stage = "requantized",
                              !.again = Quantize(quant.out, quant.levels)]
    /\ UNCHANGED <<input, overflow_checks, params, plot, pc, i, scatter, layout,
                   annotations, guides>>

QuantNext ==
    \/ QuantLevels
    \/ QuantApply
    \/ QuantAgain

\* The quantizer of create_sine_wave for any bit depth and raw amplitude.
QuantSpec == QuantInit /\ [][QuantNext]_vars

\* ------------------------------------------ what the properties speak of

\* create_sine_wave has just returned to the loop of main.
Returning == pc = "add_continuous"

\* The call that has just returned: its argument and the four vectors
\* (main moves them into the two Scatter values unchanged).
Call ==
    [params       |-> params[i + 1],
     continuous_x |-> scatter.continuous.x,
     continuous_y |-> scatter.continuous.y,
     sample_x     |-> scatter.samples.x,
     sample_y     |-> scatter.samples.y]

\* The parameters the specification accepts.
Valid(p) ==
    /\ FLess(FZero, p.signal_freq)
    /\ p.sampling_rate >= 1
    /\ p.bit_depth \in 1..32

IsPow2(n) == \E k \in 0..15 : n = Pow2(k)

\* x * den = num exactly, for a finite x >= 0 below 2 and 0 <= num, 1 <= den.
FExactRatio(x, num, den) ==
    IF num = 0 THEN x = FZero
    ELSE /\ x.c = "num" /\ x.s = 1 /\ x.m # <<>> /\ x.e < 0 /\ x.e > -128
         /\ BigMulSmall(x.m, den) = BigShl(BigFromSmall(num), -x.e)

\* |x - num / den| <= 2^-51 * (num / den), for the same x, num, den:
\* with x = m * 2^e this is |m * den - num * 2^-e| * 2^51 <= num * 2^-e.
FNearRatio(x, num, den) ==
    IF num = 0 THEN x = FZero
    ELSE /\ x.c = "num" /\ x.s = 1 /\ x.m # <<>> /\ x.e < 0 /\ x.e > -128
         /\ Let(BigShl(BigFromSmall(num), -x.e), LAMBDA ref :
                BigCmp(BigShl(BigAbsDiff(BigMulSmall(x.m, den), ref), 51), ref) <= 0)

\* x and y, finite and >= 0, are equal or adjacent f64 values.
FAdjacent(x, y) ==
    \/ x = y
    \/ /\ x.c = "num" /\ y.c = "num" /\ x.s = 1 /\ y.s = 1
       /\ x.m # <<>> /\ y.m # <<>>
       /\ x.e - y.e \in -1..1
       /\ Let(IF x.e < y.e THEN x.e ELSE y.e, LAMBDA lo :
              BigAbsDiff(BigShl(x.m, x.e - lo), BigShl(y.m, y.e - lo)) = <<1>>)

\* ------------------------------------------------------------------- C1

\* C1 as stated, for valid parameters: the continuous series (x and y alike)
\* has floor(2 * rate * 20) + 1 elements, the last one being t = 2.0.
C1_BoundaryIncluded ==
    (Returning /\ Valid(Call.params)) =>
        /\ Len(Call.continuous_x) = TIME_RANGE * Call.params.sampling_rate * INTERPOLATION_FACTOR + 1
        /\ Len(Call.continuous_y) = Len(Call.continuous_x)
        /\ Call.continuous_x[Len(Call.continuous_x)] = time_range

\* C1 amended: for sampling_rate >= 1 the continuous series (x and y alike)
\* has exactly 20 * floor(2 * rate) = 40 * rate elements, starts at t = 0 and
\* ends strictly below the window: the boundary point t = 2.0 is not in it.
C1_ContinuousLength ==
    (Returning /\ Call.params.sampling_rate >= 1) =>
        /\ Len(Call.continuous_x) = TIME_RANGE * Call.params.sampling_rate * INTERPOLATION_FACTOR
        /\ Len(Call.continuous_y) = Len(Call.continuous_x)
        /\ Call.continuous_x[1] = FZero
        /\ FLess(Call.continuous_x[Len(Call.continuous_x)], time_range)

C1_Witness ==
    /\ Returning
    /\ Call.params.sampling_rate = 5
    /\ Len(Call.continuous_x) = 200
    /\ Len(Call.continuous_y) = 200

\* ------------------------------------------------------------------- C2

\* C2 as stated: parameters with sampling_rate <= 0, signal_freq <= 0 or
\* bit_depth = 0 are rejected: no SignalParams is ever constructed from them
\* and create_sine_wave never returns for them.
C2_InvalidRejected ==
    /\ \A k \in 1..Len(params) : Valid(params[k])
    /\ Returning => Valid(Call.params)

\* ------------------------------------------------------------------- C3

\* The f64 with the exact value 2^b.
ExactPow2(b) == FRound(1, BigShl(<<1>>, b), 0, FALSE)

\* C3 as stated: for every bit_depth in 1..32 the computation of
\* amplitude_levels does not abort and yields exactly 2^bit_depth.
C3_LevelsExact ==
    quant.bit_depth \in 1..32 =>
        /\ quant.stage # "panicked"
        /\ quant.stage \in {"levels", "quantized", "requantized"} =>
               quant.levels = ExactPow2(quant.bit_depth)

\* ------------------------------------------------------------------- C4

\* C4 as stated, for valid parameters: the sampled series has floor(2 * rate)
\* elements (x and y alike) and sample_x[i] is the f64 quotient i / rate.
C4_SampleTimesQuotient ==
    (Returning /\ Valid(Call.params)) =>
        /\ Len(Call.sample_x) = TIME_RANGE * Call.params.sampling_rate
        /\ Len(Call.sample_y) = Len(Call.sample_x)
        /\ \A k \in 1..Len(Call.sample_x) :
               Call.sample_x[k] = FDivInt(FFromInt(k - 1), Call.params.sampling_rate)

\* C4 amended: for sampling_rate >= 1 the sampled series has floor(2 * rate)
\* elements (x and y alike); sample_x[i] is the product i * (1 / rate) of two
\* roundings, which is within relative error 2^-51 of i / rate, equal to or
\* adjacent to the f64 quotient i / rate, and exactly i / rate when the rate
\* is a power of two.
C4_SampleTimes ==
    (Returning /\ Call.params.sampling_rate >= 1) =>
        /\ Len(Call.sample_x) = TIME_RANGE * Call.params.sampling_rate
        /\ Len(Call.sample_y) = Len(Call.sample_x)
        /\ \A k \in 1..Len(Call.sample_x) :
               /\ FNearRatio(Call.sample_x[k], k - 1, Call.params.sampling_rate)
               /\ FAdjacent(Call.sample_x[k],
                            FDivInt(FFromInt(k - 1), Call.params.sampling_rate))
               /\ IsPow2(Call.params.sampling_rate) =>
                      FExactRatio(Call.sample_x[k], k - 1, Call.params.sampling_rate)

C4_Witness ==
    /\ Returning
    /\ Call.params.sampling_rate = 3
    /\ Len(Call.sample_x) = 6
    /\ Call.sample_x[6] # FDivInt(FFromInt(5), 3)
    /\ FNearRatio(Call.sample_x[6], 5, 3)

\* ------------------------------------------------------------------- C5

\* |x| in units of 2^-100, for a finite x of magnitude at least 2^-47.
Magnitude(x) == IF x.m = <<>> THEN <<>> ELSE BigShl(x.m, x.e + 100)

\* out is a member of {k / 2^(b-1) : k integer, |k| <= 2^(b-1)} nearest to raw
\* (raw in [-1, 1]): a member at distance at most 2^-b, half the spacing.
NearestLevel(out, raw, b) ==
    /\ out.c = "num"
    /\ out.m # <<>> =>
           /\ out.e + (b - 1) >= 0 \/ ~BigShr(out.m, -(out.e + (b - 1))).lost
           /\ FLeq(F64(1, out.m, out.e), FFromInt(1))
           /\ raw.m = <<>> \/ raw.s = out.s
    /\ BigCmp(BigAbsDiff(Magnitude(out), Magnitude(raw)), BigShl(<<1>>, 100 - b)) <= 0

\* C5 as stated, for the accepted bit depths 1..32: the quantizer returns the
\* level k / (L/2), |k| <= L/2, nearest to the raw amplitude, so within 1/L of
\* it and in [-1, 1]; for bit depth 1 the result is -1, 0 or 1.
C5_NearestLevel ==
    quant.bit_depth \in 1..32 =>
        /\ quant.stage # "panicked"
        /\ quant.stage \in {"quantized", "requantized"} =>
               /\ NearestLevel(quant.out, quant.raw, quant.bit_depth)
               /\ quant.bit_depth = 1 =>
                      quant.out \in {FFromInt(-1), FZero, FFromInt(1)}

\* The same for the bit depths 1..31, where amplitude_levels is 2^bit_depth.
QuantizerNearestBelow32 ==
    quant.bit_depth \in 1..31 =>
        /\ quant.stage # "panicked"
        /\ quant.stage \in {"quantized", "requantized"} =>
               /\ NearestLevel(quant.out, quant.raw, quant.bit_depth)
               /\ quant.bit_depth = 1 =>
                      quant.out \in {FFromInt(-1), FZero, FFromInt(1)}

\* ------------------------------------------------------------------- C6

\* C6: quantization is idempotent: for every bit depth, the quantizer applied
\* to a value it has produced, with the same amplitude_levels, returns that
\* value.
C6_Idempotent ==
    quant.stage = "requantized" => quant.again = quant.out

C6_Witness ==
    /\ quant.stage = "requantized"
    /\ quant.bit_depth = 3
    /\ quant.out # quant.raw
    /\ quant.out # FZero
    /\ quant.again = quant.out

\* ------------------------------------------------------------------- C7

\* ratio is the f64 nearest to 2 * freq / rate (freq, rate integers >= 1):
\* with ratio = m * 2^e, |m * rate - 2 * freq * 2^-e| * 2 <= rate.
NearestToRatio(ratio, freq, rate) ==
    /\ ratio.c = "num" /\ ratio.s = 1 /\ ratio.m # <<>>
    /\ ratio.e < 0 /\ ratio.e > -128
    /\ Let(BigShl(BigFromSmall(2 * freq), -ratio.e), LAMBDA ref :
           BigCmp(BigMulSmall(BigAbsDiff(BigMulSmall(ratio.m, rate), ref), 2),
                  BigFromSmall(rate)) <= 0)

\* C7: for valid input SignalParams::new sets nyquist_ratio to the f64
\* 2 * signal_freq / sampling_rate (10 Hz at rate 4 gives 5), and no step of
\* the program changes a field of a SignalParams once constructed.
C7_NyquistRatioFixed ==
    /\ [](\A k \in 1..Len(params) :
             Valid(params[k]) =>
                 /\ NearestToRatio(params[k].nyquist_ratio,
                                   FToInt(params[k].signal_freq),
                                   params[k].sampling_rate)
                 /\ (params[k].signal_freq = FFromInt(10)
                      /\ params[k].sampling_rate = 4) =>
                        params[k].nyquist_ratio = FFromInt(5))
    /\ [][\A k \in 1..Len(params) :
             Len(params') >= k /\ params'[k] = params[k]]_vars

C7_Witness ==
    /\ pc = "add_titles"
    /\ i = Len(params)
    /\ \E k \in 1..Len(params) :
          /\ Valid(params[k])
          /\ params[k].signal_freq = FFromInt(10)
          /\ params[k].sampling_rate = 4
          /\ params[k].nyquist_ratio = FFromInt(5)
          /\ plot.traces[2 * k].x_axis = "x" \o ToString(k)

\* ------------------------------------------------------------------- C8

SameInputs(p, q) ==
    /\ p.signal_freq = q.signal_freq
    /\ p.sampling_rate = q.sampling_rate
    /\ p.bit_depth = q.bit_depth

C9_MainOrder ==
    /\ Len(plot.images) <= 1
    /\ pc # "start" => Len(params) = 4
    /\ pc \in {"loop", "add_continuous"} => Len(plot.traces) = 2 * i
    /\ pc = "add_samples" => Len(plot.traces) = 2 * i + 1
    /\ pc \notin {"start", "loop", "add_continuous", "add_samples"} =>
           Len(plot.traces) = 8
    /\ \A j \in 1..Len(plot.traces) :
          LET k == (j + 1) \div 2
              t == plot.traces[j]
          IN  /\ t.x_axis = "x" \o ToString(k)
              /\ t.y_axis = "y" \o ToString(k)
              /\ Len(t.y) = Len(t.x)
              /\ IF j % 2 = 1
                 THEN /\ t.name = "Original Signal"
                      /\ Len(t.x) = 2 * INTERPOLATION_FACTOR * params[k].sampling_rate
                 ELSE /\ t.name = "Sampled & Reconstructed"
                      /\ Len(t.x) = 2 * params[k].sampling_rate
    /\ plot.images # <<>> =>
           /\ Len(plot.traces) = 8
           /\ plot.layout.set
           /\ Len(plot.layout.annotations) >= 4
           /\ \A k \in 1..4 :
                  plot.layout.annotations[k] = title_annotation(params, k)

C9_Witness ==
    /\ pc = "done"
    /\ Len(plot.images) = 1
    /\ Len(plot.traces) = 8
    /\ plot.traces[7].x_axis = "x4"
    /\ plot.traces[8].x_axis = "x4"
    /\ Len(plot.traces[1].x) = 320
    /\ Len(plot.traces[8].x) = 480

\* ------------------------------------------------------------------ C10

\* C10 as stated, for valid parameters: continuous_x[20 i] exists and is the
\* same f64 as sample_x[i]; take_while removes no point; every continuous
\* time is strictly below the window.
C10_ExactDecimation ==
    (Returning /\ Valid(Call.params)) =>
        /\ \A k \in 1..Len(Call.sample_x) :
               /\ INTERPOLATION_FACTOR * (k - 1) + 1 <= Len(Call.continuous_x)
               /\ Call.continuous_x[INTERPOLATION_FACTOR * (k - 1) + 1] = Call.sample_x[k]
        /\ Len(Call.continuous_x) = continuous_points(Call.params)
        /\ \A j \in 1..Len(Call.continuous_x) :
               FLess(Call.continuous_x[j], time_range)

\* C10 amended: for sampling_rate >= 1, continuous_x[20 i] exists and is the
\* same f64 as sample_x[i] or one adjacent to it (the same when the rate is a
\* power of two); take_while removes no point; every continuous time is
\* strictly below the window.
C10_Decimation ==
    (Returning /\ Call.params.sampling_rate >= 1) =>
        /\ \A k \in 1..Len(Call.sample_x) :
               /\ INTERPOLATION_FACTOR * (k - 1) + 1 <= Len(Call.continuous_x)
               /\ FAdjacent(Call.continuous_x[INTERPOLATION_FACTOR * (k - 1) + 1],
                            Call.sample_x[k])
               /\ IsPow2(Call.params.sampling_rate) =>
                      Call.continuous_x[INTERPOLATION_FACTOR * (k - 1) + 1] = Call.sample_x[k]
        /\ Len(Call.continuous_x) = continuous_points(Call.params)
        /\ \A j \in 1..Len(Call.continuous_x) :
               FLess(Call.continuous_x[j], time_range)

C10_Witness ==
    /\ Returning
    /\ Call.params.sampling_rate = 5
    /\ Len(Call.sample_x) = 10
    /\ Call.continuous_x[61] # Call.sample_x[4]
    /\ FAdjacent(Call.continuous_x[61], Call.sample_x[4])
====
